---- MODULE Spec2Model ----
(***************************************************************************)
(* Model of xlab.experiments.Experiment (src/xlab/experiments/experiment.py) *)
(* the timer-driven measurement loop with its condition sweep, its growable  *)
(* sample table and its plot / logger sinks.                                 *)
(*                                                                           *)
(* The Experiment object is the record `self`; its fields carry the names of *)
(* the attributes of the class without the leading underscore.  `_on_timer`  *)
(* calls user code (apply_condition hooks, the measurement function, logger  *)
(* and plot hooks): a tick in progress is a frame on `stack`, positioned at  *)
(* the hook it is executing.  While a hook runs it may return, raise, call   *)
(* stop() on the experiment or process Qt events, which lets the armed       *)
(* QTimer fire `_on_timer` again on top of the running tick.                 *)
(* `obs` records what the environment observed (calls received by the hooks, *)
(* errors that left `_on_timer`); the program never reads it.                *)
(* `user` is the code that owns the Experiment: whether it is blocked in     *)
(* wait_finished(), and the arrays get_data() returned to it.                *)
(*                                                                           *)
(* Two more objects are modelled, each under a specification of its own:     *)
(* `csv` is a CsvLogger with the file it writes and what read_csv makes of   *)
(* that file (src/xlab/experiments/logger.py); `itn` is one call of          *)
(* USB_ITN.read() with the serial line it talks to                           *)
(* (src/xlab/instruments/manufacturers/mitutoyo/usb_itn.py).                 *)
(***************************************************************************)
EXTENDS Integers, Sequences, FiniteSets, TLC

VARIABLES self, stack, now, obs, user, csv, itn

vars == <<self, stack, now, obs, user, csv, itn>>

----------------------------------------------------------------------------
(* Bounds of the exploration *)

MaxTicks == 5       \* _on_timer invocations in one behaviour
MaxStarts == 2      \* start() calls in one behaviour
MaxStops == 2       \* stop() calls made by the user in one behaviour
MaxEvents == 1      \* irregular events in one behaviour (see Irregular)
MaxWaits == 1       \* wait_finished() calls in one behaviour
MaxSnaps == 2       \* arrays obtained from get_data() in one behaviour
MaxWrites == 1      \* assignments the user makes to such arrays
MaxLines == 2       \* rows logged to one CSV file

----------------------------------------------------------------------------
(* Python values *)

\* A scalar is its Python type and its value; numbers are held in halves
\* (v is twice the number), so that 0.5 is a value: PyFloat(1).
PyInt(n) == [k |-> "int", v |-> 2 * n]
PyFloat(halves) == [k |-> "float", v |-> halves]

\* the text 'abc'
PyStr == [k |-> "str", v |-> 0]

\* float('inf') of measurements_per_condition
Inf == -1

\* no argument given / attribute holding None
NoneArg == -2

\* off by one: a condition is held for one measurement more
Greater(a, b) == b # Inf /\ a > b

\* a >= b for a an int counter and b an int or float('inf')
GreaterEqual(a, b) == b # Inf /\ a >= b

\* zip(*values): position-wise rows, as many as the shortest sequence
Min(S) == CHOOSE x \in S : \A y \in S : x <= y

ZipRows(values) ==
    IF Len(values) = 0 THEN <<>>
    ELSE LET n == Min({Len(values[i]) : i \in DOMAIN values})
         IN  [r \in 1..n |-> [i \in DOMAIN values |-> values[i][r]]]

----------------------------------------------------------------------------
(* The objects the Experiment is constructed with *)

\* log=(L1, L2): two Logger objects, in registration order
Loggers == <<"L1", "L2">>

\* plot=(P1,): one plot function
PlotHooks == <<"P1">>

\* apply_condition=(A1,): one condition hook
ApplyHooks == <<"A1">>

\* conditions argument: sequences of (variable name, sequence of values)
CondNone == <<>>
CondV == << <<"v", <<PyInt(1), PyInt(2)>> >> >>
CondVW == << <<"v", <<PyInt(1), PyInt(2)>> >>, <<"w", <<PyInt(7), PyInt(8)>> >> >>
CondUneven == << <<"v", <<PyInt(1), PyInt(2)>> >>, <<"w", <<PyInt(7)>> >> >>
CondEmpty == << <<"v", <<>> >> >>

ConditionSets == {CondNone, CondV, CondVW, CondUneven, CondEmpty}

\* measurements_per_condition argument
RepeatArgs == {NoneArg, 1, 2}

\* columns the measurement function adds, in the order it adds them
UsualColumns == <<"y", "u">>

\* what it adds when it deviates: the same columns in another order, or one less
OtherColumns == {<<"u", "y">>, <<"y">>}

----------------------------------------------------------------------------
(* The sample table: numpy structured array plus logical length *)

\* self._data = None
None == [dtype |-> <<>>, buf |-> <<>>]

\* a row of np.empty(): memory that was never written
Uninit == <<>>

\* the type of the first value is kept as the column type
promote_datatype_Keep(dtype) == dtype

\* promote_datatype: {int: float, str: object}.get(dtype, dtype)
promote_datatype(dtype) ==
    CASE dtype = "int" -> "float"
      [] dtype = "str" -> "object"
      [] OTHER -> dtype

\* a float field takes numbers; float('abc') is a ValueError; an object field
\* takes any Python object
Convertible(type, value) == type # "float" \/ value.k # "str"

\* storing a Python scalar into a field of the given type
Cast(type, value) ==
    IF type = "float" THEN PyFloat(value.v) ELSE value

Names(d) == [i \in DOMAIN d.dtype |-> d.dtype[i][1]]

RECURSIVE Repeat(_, _)
Repeat(x, n) == IF n = 0 THEN <<>> ELSE Append(Repeat(x, n - 1), x)

\* np.empty((n,), dtype)
np_empty(n, dtype) == [dtype |-> dtype, buf |-> Repeat(Uninit, n)]

\* the doubled buffer is allocated and the old rows are not copied into it
Grow_NoCopy(d) == np_empty(Len(d.buf) * 2, d.dtype)

\* the buffer grows by its initial size, not to twice its size
Grow_AddTwo(d) ==
    LET buffer_size == Len(d.buf)
        fresh == np_empty(buffer_size + 2, d.dtype)
    IN  [fresh EXCEPT !.buf = d.buf \o SubSeq(@, buffer_size + 1, buffer_size + 2)]

\* Double the buffer size: new np.empty of twice the size, old rows copied to the front
Grow(d) ==
    LET buffer_size == Len(d.buf)
        fresh == np_empty(buffer_size * 2, d.dtype)
    IN  [fresh EXCEPT !.buf = d.buf \o SubSeq(@, buffer_size + 1, buffer_size * 2)]

\* self._data[idx] = data  (idx counted from 0)
StoreRow(d, idx, vals) ==
    [d EXCEPT !.buf[idx + 1] = [i \in DOMAIN vals |-> Cast(d.dtype[i][2], vals[i])]]

\* the column names compared as sets, whatever their order
SchemaDiffers_AsSets(columns, names) ==
    {columns[i] : i \in DOMAIN columns} # {names[i] : i \in DOMAIN names}

\* columns != self._data.dtype.names: tuples, compared element by element
SchemaDiffers(columns, names) == columns # names

\* lines 153-176 of _on_timer: schema check, growth and append of measurement m.
\* Result: the new object state, the exception raised if any, and idx.
AppendRecord(s, m) ==
    LET columns == m.cols
        vals == m.vals
        created == s.data = None
        mismatch == ~created /\ SchemaDiffers(columns, Names(s.data))
        d0 == IF created
              THEN np_empty(2, [i \in DOMAIN columns |->
                                   <<columns[i], promote_datatype(vals[i].k)>>])
              ELSE s.data
        len0 == IF created THEN 0 ELSE s.len
        d1 == IF len0 >= Len(d0.buf) THEN Grow(d0) ELSE d0
        idx == len0
    IN  IF mismatch
        THEN [raised |-> "RuntimeError", s |-> s, idx |-> 0]
        ELSE IF \E i \in DOMAIN vals : ~Convertible(d1.dtype[i][2], vals[i])
        THEN \* the store fails after the growth: no row, _len as it was
             [raised |-> "ValueError", s |-> [s EXCEPT !.data = d1, !.len = len0],
              idx |-> 0]
        ELSE [raised |-> "",
              s |-> [s EXCEPT !.data = StoreRow(d1, idx, vals), !.len = len0 + 1],
              idx |-> idx]

\* An array is its dtype, its rows and the memory it stands on: base is 0 for
\* an array that owns its memory, and for a view of the buffer of the table
\* it names that buffer by its size (the table is created once and only
\* doubles, so no two of its buffers have the same size).

\* the whole buffer is returned, not its first _len rows
get_data_WholeBuffer(s) ==
    IF s.data = None
    THEN [raised |-> TRUE, dtype |-> <<>>, rows |-> <<>>, base |-> 0]
    ELSE [raised |-> FALSE, dtype |-> s.data.dtype, rows |-> s.data.buf, base |-> 0]

\* the slice is returned as it is: a view of the buffer
get_data_NoCopy(s) ==
    IF s.data = None
    THEN [raised |-> TRUE, dtype |-> <<>>, rows |-> <<>>, base |-> 0]
    ELSE [raised |-> FALSE, dtype |-> s.data.dtype,
          rows |-> SubSeq(s.data.buf, 1, s.len), base |-> Len(s.data.buf)]

\* get_data(): self._data[:self._len].copy(); subscripting None raises TypeError
get_data(s) ==
    IF s.data = None
    THEN [raised |-> TRUE, dtype |-> <<>>, rows |-> <<>>, base |-> 0]
    ELSE [raised |-> FALSE, dtype |-> s.data.dtype,
          rows |-> SubSeq(s.data.buf, 1, s.len), base |-> 0]

----------------------------------------------------------------------------
(* Construction, start() and stop() *)

\* the default of measurements_per_condition is 1 also without conditions
New_DefaultOne(conditions, measurements_per_condition) ==
    [conditions |-> conditions,
     measurements_per_condition |->
        IF measurements_per_condition = NoneArg THEN 1 ELSE measurements_per_condition,
     timer |-> FALSE,
     data |-> None,
     len |-> 0,
     t0 |-> NoneArg,
     first |-> FALSE,
     measurements_for_condition |-> 0,
     variables |-> <<>>,
     variable_values |-> <<>>,
     variable_values_iter |-> <<>>]

\* Experiment.__init__ with the given conditions and measurements_per_condition
New(conditions, measurements_per_condition) ==
    [conditions |-> conditions,
     measurements_per_condition |->
        IF measurements_per_condition = NoneArg
        THEN (IF conditions # <<>> THEN 1 ELSE Inf)
        ELSE measurements_per_condition,
     timer |-> FALSE,
     data |-> None,
     len |-> 0,
     t0 |-> NoneArg,
     first |-> FALSE,
     measurements_for_condition |-> 0,
     variables |-> <<>>,
     variable_values |-> <<>>,
     variable_values_iter |-> <<>>]

\* what the environment has seen, nothing yet
NoObs ==
    [given |-> NoneArg,     \* the measurements_per_condition argument of __init__
     run |-> 0,             \* start() calls so far
     started |-> 0,         \* the clock when start() was called last
     ticks |-> 0,           \* _on_timer invocations so far
     runTicks |-> 0,        \* ... since the last start()
     lateTicks |-> 0,       \* ... that began after a tick of the same run had raised
     stops |-> 0,           \* stop() calls by the user
     runStops |-> 0,        \* stop() calls of any origin since the last start()
     events |-> 0,          \* irregular events
     calls |-> Repeat(<<>>, Len(Loggers)),  \* calls received by each logger
     offered |-> <<>>,      \* the records the measurement function completed
     accepted |-> <<>>,     \* the records appended to the table, with the row stored
     applied |-> <<>>,      \* condition values written to the records since start()
     conditioned |-> <<>>,  \* calls received by the apply_condition hooks
     plotted |-> <<>>,      \* calls received by the plot hooks, with the table passed
     measured |-> 0,        \* calls of the measurement function
     thrown |-> <<>>,       \* exceptions raised inside _on_timer
     errors |-> 0,          \* exceptions that left _on_timer
     failed |-> FALSE,      \* a tick raised since the last start()
     reentered |-> FALSE,   \* a hook called back into the experiment since start()
     inflight |-> <<>>,     \* the hooks that called stop(): run, tick, hook, ticks so far
     tampered |-> <<>>,     \* the hooks that assigned to the array they were called with
     ended |-> ""]          \* how the timer of this run was stopped first

\* start() leaves the repeat counter as the previous run left it
start_KeepCounter(w, t) ==
    LET s == w.s
        s1 == IF s.conditions # <<>>
              THEN [s EXCEPT
                      !.variables = [i \in DOMAIN s.conditions |-> s.conditions[i][1]],
                      !.variable_values_iter =
                          ZipRows([i \in DOMAIN s.conditions |-> s.conditions[i][2]])]
              ELSE [s EXCEPT
                      !.variables = <<>>,
                      !.variable_values_iter = <<>>,
                      !.measurements_for_condition = 0]
    IN  [s |-> [s1 EXCEPT !.first = TRUE, !.t0 = t, !.timer = TRUE],
         o |-> [w.o EXCEPT !.run = @ + 1, !.started = t, !.runTicks = 0, !.runStops = 0,
                           !.applied = <<>>, !.failed = FALSE,
                           !.reentered = FALSE, !.ended = ""]]

\* start() leaves _t0 as it was
start_KeepT0(w, t) ==
    LET s == w.s
        s1 == IF s.conditions # <<>>
              THEN [s EXCEPT
                      !.variables = [i \in DOMAIN s.conditions |-> s.conditions[i][1]],
                      !.variable_values_iter =
                          ZipRows([i \in DOMAIN s.conditions |-> s.conditions[i][2]]),
                      !.measurements_for_condition = s.measurements_per_condition]
              ELSE [s EXCEPT
                      !.variables = <<>>,
                      !.variable_values_iter = <<>>,
                      !.measurements_for_condition = 0]
    IN  [s |-> [s1 EXCEPT !.first = TRUE, !.timer = TRUE],
         o |-> [w.o EXCEPT !.run = @ + 1, !.started = t, !.runTicks = 0, !.runStops = 0,
                           !.applied = <<>>, !.failed = FALSE,
                           !.reentered = FALSE, !.ended = ""]]

\* Experiment.start(): w is the pair of object state and observations,
\* t the reading of time.monotonic()
start(w, t) ==
    LET s == w.s
        s1 == IF s.conditions # <<>>
              THEN [s EXCEPT
                      !.variables = [i \in DOMAIN s.conditions |-> s.conditions[i][1]],
                      !.variable_values_iter =
                          ZipRows([i \in DOMAIN s.conditions |-> s.conditions[i][2]]),
                      !.measurements_for_condition = s.measurements_per_condition]
              ELSE [s EXCEPT
                      !.variables = <<>>,
                      !.variable_values_iter = <<>>,
                      !.measurements_for_condition = 0]
    IN  [s |-> [s1 EXCEPT !.first = TRUE, !.t0 = t, !.timer = TRUE],
         o |-> [w.o EXCEPT !.run = @ + 1, !.started = t, !.runTicks = 0, !.runStops = 0,
                           !.applied = <<>>, !.failed = FALSE,
                           !.reentered = FALSE, !.ended = ""]]

\* Experiment.log_finish(): logger.finish() for every logger, in order
RECURSIVE finish_each(_, _, _)
finish_each(calls, l, run) ==
    IF l > Len(Loggers) THEN calls
    ELSE finish_each([calls EXCEPT ![l] = Append(@, [op |-> "finish", row |-> <<>>,
                                                     run |-> run])],
                     l + 1, run)

log_finish(o) == [o EXCEPT !.calls = finish_each(@, 1, o.run)]

\* stop() finishes the loggers and leaves the timer running
stop_KeepTimer(w, by) ==
    [s |-> w.s,
     o |-> log_finish([w.o EXCEPT !.runStops = @ + 1,
                                  !.ended = IF @ = "" /\ w.s.timer THEN by ELSE @])]

\* Experiment.stop(); by tells who called it
stop(w, by) ==
    [s |-> [w.s EXCEPT !.timer = FALSE],
     o |-> log_finish([w.o EXCEPT !.runStops = @ + 1,
                                  !.ended = IF @ = "" /\ w.s.timer THEN by ELSE @])]

----------------------------------------------------------------------------
(* _on_timer: one tick.  A frame is a tick in progress, standing in a hook:  *)
(* pc names the hook ("apply", "measure", "log_start", "log", "plot"), k is  *)
(* the position of the hook in its sequence, measurement the OrderedDict,    *)
(* idx the row written by this tick (once it was written), tick the number   *)
(* of the tick since start().                                                *)

\* no array: the hook is called with the record, not with a part of the table
NoArray == [rows |-> <<>>, base |-> 0, off |-> 0]

Frame(pc, k, measurement, condition_changed, tick) ==
    [pc |-> pc, k |-> k, measurement |-> measurement,
     condition_changed |-> condition_changed, idx |-> 0, tick |-> tick,
     arg |-> NoArray]

\* self._data[from - 1 : to]: the rows from..to of the buffer, standing on the
\* memory of the buffer, off rows from its beginning
View(s, from, to) ==
    [rows |-> SubSeq(s.data.buf, from, to), base |-> Len(s.data.buf), off |-> from - 1]

\* the array the hook of frame f is called with: self._data[idx] for a logger,
\* self._data[:self._len] for a plot hook
Handed(s, f) ==
    CASE f.pc \in {"log_start", "log"} -> View(s, f.idx + 1, f.idx + 1)
      [] f.pc = "plot" -> View(s, 1, s.len)
      [] OTHER -> NoArray

\* the row self._data[idx] handed to a logger
RowAt(s, idx) == s.data.buf[idx + 1]

\* what the environment sees when the tick calls the hook of frame f
Enter(w, f) ==
    CASE f.pc = "measure" ->
            [w EXCEPT !.o.measured = @ + 1]
      [] f.pc = "apply" ->
            [w EXCEPT !.o.conditioned =
                Append(@, [run |-> w.o.run, tick |-> f.tick, k |-> f.k,
                           record |-> f.measurement])]
      [] f.pc \in {"log_start", "log"} ->
            [w EXCEPT !.o.calls[f.k] =
                Append(@, [op |-> IF f.pc = "log_start" THEN "start" ELSE "log",
                           row |-> RowAt(w.s, f.idx), run |-> w.o.run])]
      [] OTHER ->
            [w EXCEPT !.o.plotted =
                Append(@, [run |-> w.o.run, tick |-> f.tick, k |-> f.k,
                           rows |-> SubSeq(w.s.data.buf, 1, w.s.len)])]

\* the tick goes on in hook f
Continue(w, f) ==
    [w |-> Enter(w, f), frames |-> <<[f EXCEPT !.arg = Handed(w.s, f)]>>]

\* the tick is over (returned or raised)
Over(w) == [w |-> w, frames |-> <<>>]

\* an exception is raised inside the try block, by the hook or the check `origin`
Throw(w, origin, tick) ==
    [w EXCEPT !.o.thrown = Append(@, [origin |-> origin, run |-> w.o.run,
                                      tick |-> tick])]

\* the handler re-raises and leaves the timer armed
Except_NoStop(w) ==
    [w |-> [w EXCEPT !.o.errors = @ + 1, !.o.failed = TRUE], frames |-> <<>>]

\* the handler takes back the row of the failed tick
Except_Rollback(w) ==
    Over([w EXCEPT !.s.timer = FALSE,
                   !.s.len = IF @ > 0 THEN @ - 1 ELSE @,
                   !.o.errors = @ + 1,
                   !.o.failed = TRUE])

\* except: self._timer.stop(); raise
Except(w) ==
    Over([w EXCEPT !.s.timer = FALSE,
                   !.o.errors = @ + 1,
                   !.o.failed = TRUE])

\* apply_condition is called on every tick that takes a measurement
Begin_ApplyAlways(w0, t) ==
    LET w == [w0 EXCEPT !.o.ticks = @ + 1, !.o.runTicks = @ + 1,
                        !.o.lateTicks = IF w0.o.failed THEN @ + 1 ELSE @]
        s == w.s
        time == PyFloat(2 * (t - s.t0))
        limit == GreaterEqual(s.measurements_for_condition,
                              s.measurements_per_condition)
        exhausted == limit /\ s.variable_values_iter = <<>>
        condition_changed == limit
        s1 == IF limit
              THEN [s EXCEPT !.measurements_for_condition = 0]
              ELSE s
    IN  IF exhausted
        THEN \* StopIteration: self.stop(); return
             Over(stop([w EXCEPT !.s = s1], "exhausted"))
        ELSE
        LET s2 == IF limit
                  THEN [s1 EXCEPT !.variable_values = Head(s.variable_values_iter),
                                  !.variable_values_iter = Tail(s.variable_values_iter)]
                  ELSE s1
            s3 == [s2 EXCEPT !.measurements_for_condition = @ + 1]
            n == IF Len(s3.variables) <= Len(s3.variable_values)
                 THEN Len(s3.variables) ELSE Len(s3.variable_values)
            measurement ==
                [cols |-> <<"time">> \o SubSeq(s3.variables, 1, n),
                 vals |-> <<time>> \o SubSeq(s3.variable_values, 1, n)]
            w3 == [w EXCEPT !.s = s3,
                            !.o.applied = Append(@, Tail(measurement.vals))]
        IN  IF TRUE
            THEN Continue(w3, Frame("apply", 1, measurement, TRUE, w.o.runTicks))
            ELSE Continue(w3, Frame("measure", 1, measurement, FALSE, w.o.runTicks))

\* lines 126-149: build the record, advance the sweep, up to the first hook.
\* t is the reading of time.monotonic().
Begin(w0, t) ==
    LET w == [w0 EXCEPT !.o.ticks = @ + 1, !.o.runTicks = @ + 1,
                        !.o.lateTicks = IF w0.o.failed THEN @ + 1 ELSE @]
        s == w.s
        time == PyFloat(2 * (t - s.t0))
        limit == GreaterEqual(s.measurements_for_condition,
                              s.measurements_per_condition)
        exhausted == limit /\ s.variable_values_iter = <<>>
        condition_changed == limit
        s1 == IF limit
              THEN [s EXCEPT !.measurements_for_condition = 0]
              ELSE s
    IN  IF exhausted
        THEN \* StopIteration: self.stop(); return
             Over(stop([w EXCEPT !.s = s1], "exhausted"))
        ELSE
        LET s2 == IF limit
                  THEN [s1 EXCEPT !.variable_values = Head(s.variable_values_iter),
                                  !.variable_values_iter = Tail(s.variable_values_iter)]
                  ELSE s1
            s3 == [s2 EXCEPT !.measurements_for_condition = @ + 1]
            n == IF Len(s3.variables) <= Len(s3.variable_values)
                 THEN Len(s3.variables) ELSE Len(s3.variable_values)
            measurement ==
                [cols |-> <<"time">> \o SubSeq(s3.variables, 1, n),
                 vals |-> <<time>> \o SubSeq(s3.variable_values, 1, n)]
            w3 == [w EXCEPT !.s = s3,
                            !.o.applied = Append(@, Tail(measurement.vals))]
        IN  IF condition_changed
            THEN Continue(w3, Frame("apply", 1, measurement, TRUE, w.o.runTicks))
            ELSE Continue(w3, Frame("measure", 1, measurement, FALSE, w.o.runTicks))

\* the tick ends and _first is left set
Finish_KeepFirst(w) == [w |-> w, frames |-> <<>>]

\* the end of the try block: self._first = False
Finish(w) == Over([w EXCEPT !.s.first = FALSE])

\* lines 153-181: the measurement function returned; append and go to the loggers
AfterMeasure(w0, f) ==
    LET w == [w0 EXCEPT !.o.offered = Append(@, f.measurement)]
        r == AppendRecord(w.s, f.measurement)
        w1 == [w EXCEPT !.s = r.s,
                        !.o.accepted = Append(@, [run |-> w.o.run,
                                                  record |-> f.measurement,
                                                  row |-> RowAt(r.s, r.idx)])]
        g == [f EXCEPT !.idx = r.idx, !.k = 1]
    IN  IF r.raised # ""
        THEN Except(Throw([w EXCEPT !.s = r.s], r.raised, f.tick))
        ELSE IF w1.s.first
             THEN Continue(w1, [g EXCEPT !.pc = "log_start"])
             ELSE Continue(w1, [g EXCEPT !.pc = "log"])

\* the hook of frame f returned: run _on_timer up to its next hook, or its end
Resume(w, f) ==
    CASE f.pc = "apply" ->
            IF f.k < Len(ApplyHooks)
            THEN Continue(w, [f EXCEPT !.k = @ + 1])
            ELSE Continue(w, [f EXCEPT !.pc = "measure", !.k = 1])
      [] f.pc = "measure" -> AfterMeasure(w, f)
      [] f.pc = "log_start" ->
            IF f.k < Len(Loggers)
            THEN Continue(w, [f EXCEPT !.k = @ + 1])
            ELSE Continue(w, [f EXCEPT !.pc = "log", !.k = 1])
      [] f.pc = "log" ->
            IF f.k < Len(Loggers)
            THEN Continue(w, [f EXCEPT !.k = @ + 1])
            ELSE Continue(w, [f EXCEPT !.pc = "plot", !.k = 1])
      [] OTHER ->
            IF f.k < Len(PlotHooks)
            THEN Continue(w, [f EXCEPT !.k = @ + 1])
            ELSE Finish(w)

----------------------------------------------------------------------------
(* CsvLogger and read_csv.  A text is a sequence of characters; a column    *)
(* name and the text of a number are taken as one character each.           *)

\* the sep argument of CsvLogger
Separators == {",", ";", " "}

\* the column names of the row handed to start()
ColumnSets == {<<"time", "y">>, <<"time", "v", "y">>}

\* the values of a float column, and str() of them
FloatValues == {PyFloat(1), PyFloat(2)}

NumText == <<"0.0", "0.5", "1.0">>

Str(value) == NumText[value.v + 1]

\* the logger is constructed, nothing is written, nothing was read
NoFile ==
    [sep |-> ",",           \* self._sep
     open |-> FALSE,        \* self._file is not None
     lines |-> <<>>,        \* the lines of the file
     names |-> <<>>,        \* the columns of the table that was logged
     logged |-> <<>>,       \* the rows that were logged
     finished |-> FALSE,    \* finish() was called
     read |-> [done |-> FALSE, raised |-> FALSE, names |-> <<>>, rows |-> <<>>]]

\* print(*fields, sep=sep): the fields, sep between them
RECURSIVE Join(_, _)
Join(fields, sep) ==
    IF Len(fields) = 0 THEN <<>>
    ELSE IF Len(fields) = 1 THEN <<fields[1]>>
    ELSE <<fields[1], sep>> \o Join(Tail(fields), sep)

\* CsvLogger.start(data): open the file, print the column names
CsvLogger_start(l, columns) ==
    [l EXCEPT !.open = TRUE, !.lines = <<Join(columns, l.sep)>>, !.names = columns]

\* CsvLogger.log(data): print the values of the row
CsvLogger_log(l, data) ==
    [l EXCEPT !.lines = Append(@, Join([i \in DOMAIN data |-> Str(data[i])], l.sep)),
              !.logged = Append(@, data)]

\* CsvLogger.finish(): close the file
CsvLogger_finish(l) == [l EXCEPT !.open = FALSE, !.finished = TRUE]

\* a line split at the delimiter, as np.genfromtxt does
Split(line, delimiter) ==
    LET cuts == <<0>> \o SelectSeq([i \in DOMAIN line |-> IF line[i] = delimiter THEN i ELSE 0],
                                   LAMBDA i : i > 0) \o <<Len(line) + 1>>
    IN  [j \in 1..(Len(cuts) - 1) |-> SubSeq(line, cuts[j] + 1, cuts[j + 1] - 1)]

\* characters numpy's NameValidator deletes from a field name (of the
\* characters used here)
DeleteChars == {";", ","}

\* names=True: a field of the header line becomes a valid field name:
\* blanks become underscores, the characters of DeleteChars are dropped
RECURSIVE Validate(_)
Validate(field) ==
    IF field = <<>> THEN <<>>
    ELSE (IF Head(field) \in DeleteChars THEN <<>>
          ELSE IF Head(field) = " " THEN <<"_">>
          ELSE <<Head(field)>>) \o Validate(Tail(field))

\* read_csv(filename): np.genfromtxt(filename, delimiter=',', dtype=None,
\* names=True); a data line with another number of fields than the header
\* is an error.  The columns keep the names, each row holds its fields.
read_csv(lines) ==
    LET header == Split(lines[1], ",")
        data == [i \in 1..(Len(lines) - 1) |-> Split(lines[i + 1], ",")]
    IN  [done |-> TRUE,
         raised |-> \E i \in DOMAIN data : Len(data[i]) # Len(header),
         names |-> [i \in DOMAIN header |-> Validate(header[i])],
         rows |-> data]

\* start(data) with the first row of a table
CsvStart ==
    /\ ~csv.open
    /\ ~csv.finished
    /\ \E columns \in ColumnSets : csv' = CsvLogger_start(csv, columns)
    /\ UNCHANGED <<self, stack, now, obs, user, itn>>

\* log(data) with a row of the table
CsvLog ==
    /\ csv.open
    /\ Len(csv.logged) < MaxLines
    /\ \E data \in [DOMAIN csv.names -> FloatValues] : csv' = CsvLogger_log(csv, data)
    /\ UNCHANGED <<self, stack, now, obs, user, itn>>

\* finish() at the end of the run
CsvFinish ==
    /\ csv.open
    /\ Len(csv.logged) >= 1
    /\ csv' = CsvLogger_finish(csv)
    /\ UNCHANGED <<self, stack, now, obs, user, itn>>

\* read_csv on the file the logger has written
ReadCsv ==
    /\ csv.finished
    /\ ~csv.read.done
    /\ csv' = [csv EXCEPT !.read = read_csv(csv.lines)]
    /\ UNCHANGED <<self, stack, now, obs, user, itn>>

----------------------------------------------------------------------------
(* USB_ITN.read().  Time is counted in timeouts of the serial port (.5 s):  *)
(* a read() of the port returns the next byte the device sent, or nothing   *)
(* after one timeout.                                                       *)

\* retries = 5
Retries == 5

\* self._replytimeout = 5 (seconds)
replytimeout == 5

\* serial.Serial(..., timeout = .5): timeouts of the port in a second
PerSecond == 2

CR == "CR"

\* what the device may answer to a request, before the closing \r
DeviceReplies ==
    { <<"0", "1", "A", "1", "5">>,      \* value 15
      <<"0", "1", "A", "x">>,           \* value that is no number
      <<"9", "1", "1">>,                \* timeout of the gauge
      <<"9", "1", "8">>,                \* busy
      <<"9", "1", "2">>,                \* another error of the gauge
      <<"x">>,                          \* anything else
      <<>> }

Digits == <<"0", "1", "2", "3", "4", "5", "6", "7", "8", "9">>

IsDigit(c) == \E d \in DOMAIN Digits : Digits[d] = c

DigitValue(c) == (CHOOSE d \in DOMAIN Digits : Digits[d] = c) - 1

RECURSIVE Decimal(_)
Decimal(text) ==
    IF text = <<>> THEN 0
    ELSE 10 * Decimal(SubSeq(text, 1, Len(text) - 1)) + DigitValue(text[Len(text)])

\* float(text): the number, or ValueError when the text is not a number
Float(text) ==
    IF text # <<>> /\ \A i \in DOMAIN text : IsDigit(text[i])
    THEN [raised |-> "", value |-> Decimal(text)]
    ELSE [raised |-> "ValueError", value |-> 0]

startswith(text, prefix) ==
    Len(text) >= Len(prefix) /\ SubSeq(text, 1, Len(prefix)) = prefix

endswith(text, c) == text # <<>> /\ text[Len(text)] = c

\* no call of read() yet
NoCall ==
    [pc |-> "idle",         \* where the call stands: idle, loop, recv, done
     retries |-> 0,         \* the local variable retries
     reply |-> <<>>,        \* the local variable reply
     waited |-> 0,          \* timeouts of the port since the request was sent
     line |-> <<>>,         \* bytes the device has still to send
     sent |-> 0,            \* requests written to the port
     busy |-> 0,            \* busy replies received
     raised |-> "",         \* the exception that ended the call
     value |-> 0]           \* the value returned

\* the call ends by raising e
Raise(c, e) == [c EXCEPT !.pc = "done", !.raised = e]

\* lines 70-87: the inner loop is over, the reply is assessed
Assess(c) ==
    LET reply == SubSeq(c.reply, 1, Len(c.reply) - 1)
    IN  IF ~endswith(c.reply, CR) THEN Raise(c, "TimeoutError")
        ELSE IF startswith(reply, <<"0", "1", "A">>)
        THEN LET f == Float(SubSeq(reply, 4, Len(reply)))
             IN  IF f.raised # "" THEN Raise(c, f.raised)
                 ELSE [c EXCEPT !.pc = "done", !.value = f.value]
        ELSE IF reply = <<"9", "1", "1">> THEN Raise(c, "TimeoutError")
        ELSE IF reply = <<"9", "1", "8">>
        THEN [c EXCEPT !.pc = "loop", !.busy = @ + 1]
        ELSE IF startswith(reply, <<"9", "1">>) THEN Raise(c, "IOError")
        ELSE Raise(c, "IOError")

\* read() is called: flushInput(), retries = 5
ItnRead ==
    /\ itn.pc = "idle"
    /\ itn' = [itn EXCEPT !.pc = "loop", !.retries = Retries, !.line = <<>>]
    /\ UNCHANGED <<self, stack, now, obs, user, csv>>

\* while retries > 0: the next request is written, the device prepares its
\* answer; or the loop is over and the call raises
ItnRequest ==
    /\ itn.pc = "loop"
    /\ IF itn.retries > 0
       THEN \E r \in DeviceReplies :
               itn' = [itn EXCEPT !.pc = "recv", !.retries = @ - 1, !.sent = @ + 1,
                                  !.reply = <<>>, !.waited = 0,
                                  !.line = r \o <<CR>>]
       ELSE itn' = Raise(itn, "IOError")
    /\ UNCHANGED <<self, stack, now, obs, user, csv>>

\* the inner loop goes on
Receiving(c) == ~endswith(c.reply, CR) /\ c.waited < PerSecond * replytimeout

\* reply += self._serial.read(): the next byte, or nothing after a timeout of
\* the port
ItnReceive ==
    /\ itn.pc = "recv"
    /\ Receiving(itn)
    /\ \/ /\ itn.line # <<>>
          /\ itn' = [itn EXCEPT !.reply = Append(@, Head(itn.line)), !.line = Tail(@)]
       \/ itn' = [itn EXCEPT !.waited = @ + 1]
    /\ UNCHANGED <<self, stack, now, obs, user, csv>>

\* the inner loop is over
ItnReplyEnds ==
    /\ itn.pc = "recv"
    /\ ~Receiving(itn)
    /\ itn' = Assess(itn)
    /\ UNCHANGED <<self, stack, now, obs, user, csv>>

----------------------------------------------------------------------------
(* The environment: the clock, the user, the hooks *)

\* time.monotonic() does not go back; two readings may be equal
ClockSteps == {0, 1}

\* what the measurement function adds to the record on its n-th call:
\* the reading of an instrument (here the ordinal of the call) and a flag
Reading(n) == [cols |-> UsualColumns, vals |-> <<PyInt(n), PyInt(0)>>]

\* other readings: other columns, a fractional reading (n + 0.5), a text
OddReadings(n) ==
    {[cols |-> c, vals |-> [i \in DOMAIN c |-> IF c[i] = "y" THEN PyInt(n) ELSE PyInt(0)]] :
        c \in OtherColumns}
    \cup {[cols |-> UsualColumns, vals |-> <<y, PyInt(0)>>] : y \in {PyFloat(2 * n + 1), PyStr}}

World == [s |-> self, o |-> obs]

Top == stack[Len(stack)]

Below == SubSeq(stack, 1, Len(stack) - 1)

\* irregular events (a hook that raises or re-enters, a reading other than the
\* usual one, a clock that stands still) are counted, to bound them
Irregular(w) == [w EXCEPT !.o.events = @ + 1]

MayBeIrregular == obs.events < MaxEvents

\* a reading of the clock d later than the last one
Read(w, d) == IF d = 0 THEN Irregular(w) ELSE w

Steps == {d \in ClockSteps : d > 0 \/ MayBeIrregular}

\* the outcome r of running _on_timer code becomes the next state;
\* base is the stack below the tick that ran
Set(r, base) ==
    /\ self' = r.w.s
    /\ obs' = r.w.o
    /\ stack' = base \o r.frames
    /\ UNCHANGED <<user, csv, itn>>

\* the user holds no array and waits for nothing
NoUser ==
    [waiting |-> FALSE,     \* the user is in the loop of wait_finished()
     waits |-> 0,           \* calls of wait_finished()
     called |-> <<0, 0>>,   \* run and number of ticks when it was called last
     returned |-> 0,        \* number of ticks when it returned last
     snaps |-> <<>>,        \* the arrays get_data() returned
     writes |-> <<>>]       \* the assignments made to them

Init ==
    /\ \E c \in ConditionSets, n \in RepeatArgs :
          /\ self = New(c, n)
          /\ obs = [NoObs EXCEPT !.given = n]
    /\ stack = <<>>
    /\ now = 0
    /\ user = NoUser
    /\ csv = NoFile
    /\ itn = NoCall

\* the user calls start()
Start ==
    /\ stack = <<>>
    /\ ~user.waiting
    /\ obs.run < MaxStarts
    /\ \E d \in Steps :
          /\ now' = now + d
          /\ LET w == start(Read(World, d), now')
             IN  self' = w.s /\ obs' = w.o
    /\ UNCHANGED <<stack, user, csv, itn>>

\* the user calls stop()
Stop ==
    /\ stack = <<>>
    /\ ~user.waiting
    /\ obs.stops < MaxStops
    /\ LET w == stop([World EXCEPT !.o.stops = @ + 1], "stop")
       IN  self' = w.s /\ obs' = w.o
    /\ UNCHANGED <<stack, now, user, csv, itn>>

\* the event loop is idle and the armed timer fires
OnTimer ==
    /\ stack = <<>>
    /\ self.timer
    /\ obs.ticks < MaxTicks
    /\ \E d \in Steps :
          /\ now' = now + d
          /\ Set(Begin(Read(World, d), now'), stack)

\* the hook the tick is standing in returns
HookReturns ==
    /\ stack # <<>>
    /\ Top.pc # "measure"
    /\ Set(Resume(World, Top), Below)
    /\ UNCHANGED now

\* the measurement function returns, having added its columns
MeasureReturns ==
    /\ stack # <<>>
    /\ Top.pc = "measure"
    /\ \E out \in {Reading(obs.measured)} \cup
                  (IF MayBeIrregular THEN OddReadings(obs.measured) ELSE {}) :
          LET f == [Top EXCEPT !.measurement =
                        [cols |-> @.cols \o out.cols, vals |-> @.vals \o out.vals]]
          IN  Set(Resume(IF out = Reading(obs.measured) THEN World ELSE Irregular(World),
                         f),
                  Below)
    /\ UNCHANGED now

\* the hook the tick is standing in raises
HookRaises ==
    /\ stack # <<>>
    /\ MayBeIrregular
    /\ Set(Except(Throw(Irregular(World), Top.pc, Top.tick)), Below)
    /\ UNCHANGED now

\* the hook the tick is standing in calls stop() on the experiment
HookStops ==
    /\ stack # <<>>
    /\ MayBeIrregular
    /\ LET w == stop([Irregular(World) EXCEPT
                         !.o.reentered = TRUE,
                         !.o.inflight = Append(@, [run |-> obs.run, tick |-> Top.tick,
                                                   pc |-> Top.pc, k |-> Top.k,
                                                   ticks |-> obs.runTicks])],
                     "stop")
       IN  self' = w.s /\ obs' = w.o
    /\ UNCHANGED <<stack, now, user, csv, itn>>

\* the hook the tick is standing in processes Qt events (a wait, a dialog):
\* the armed timer fires, _on_timer runs on top of the tick in progress
HookProcessesEvents ==
    /\ stack # <<>>
    /\ MayBeIrregular
    /\ self.timer
    /\ obs.ticks < MaxTicks
    /\ now' = now + 1
    /\ Set(Begin([Irregular(World) EXCEPT !.o.reentered = TRUE], now'), stack)

\* the user calls wait_finished() and is in its loop from now on:
\* while self._timer.isActive(): QtGui.qApp.processEvents()
WaitFinished ==
    /\ stack = <<>>
    /\ ~user.waiting
    /\ user.waits < MaxWaits
    /\ user' = [user EXCEPT !.waiting = TRUE, !.waits = @ + 1,
                             !.called = <<obs.run, obs.ticks>>]
    /\ UNCHANGED <<self, stack, now, obs, csv, itn>>

\* wait_finished() returns after one round of its loop, whatever the timer does
WaitReturns_AfterOneRound ==
    /\ user.waiting
    /\ stack = <<>>
    /\ user' = [user EXCEPT !.waiting = FALSE, !.returned = obs.ticks]
    /\ UNCHANGED <<self, stack, now, obs, csv, itn>>

\* the loop of wait_finished() finds the timer inactive and returns
WaitReturns ==
    /\ user.waiting
    /\ stack = <<>>
    /\ ~self.timer
    /\ user' = [user EXCEPT !.waiting = FALSE, !.returned = obs.ticks]
    /\ UNCHANGED <<self, stack, now, obs, csv, itn>>

\* an assignment to row i of array a of the user
Marked(row) == [row EXCEPT ![1] = PyFloat(-2)]

\* what the assignment to row i of a does to another array b: b is written
\* too when it stands on the same memory as a
WrittenThrough(a, b, i) ==
    IF a.base # 0 /\ b.base = a.base /\ i <= Len(b.rows)
    THEN [b EXCEPT !.rows[i] = Marked(@)]
    ELSE b

\* the user calls get_data() and keeps the array
GetData ==
    /\ stack = <<>>
    /\ ~user.waiting
    /\ Len(user.snaps) < MaxSnaps
    /\ ~get_data(self).raised
    /\ user' = [user EXCEPT !.snaps = Append(@, get_data(self))]
    /\ UNCHANGED <<self, stack, now, obs, csv, itn>>

\* the user assigns to a row of an array it got from get_data()
WriteSnapshot ==
    /\ stack = <<>>
    /\ ~user.waiting
    /\ Len(user.writes) < MaxWrites
    /\ \E j \in DOMAIN user.snaps : \E i \in DOMAIN user.snaps[j].rows :
          LET a == user.snaps[j]
              table == [rows |-> self.data.buf, base |-> Len(self.data.buf)]
          IN  /\ user' = [user EXCEPT
                            !.snaps = [h \in DOMAIN @ |->
                                          IF h = j THEN [a EXCEPT !.rows[i] = Marked(@)]
                                          ELSE WrittenThrough(a, @[h], i)],
                            !.writes = Append(@, [snap |-> j, row |-> i])]
              /\ self' = [self EXCEPT !.data.buf = WrittenThrough(a, table, i).rows]
    /\ UNCHANGED <<stack, now, obs, csv, itn>>

\* what an assignment to row i of the array a does to the array b
\* (off rows from the beginning of its memory): the row of b that stands
\* on the same memory is written too
Through(a, i, b) ==
    LET p == a.off + i
    IN  IF a.base # 0 /\ b.base = a.base /\ b.off < p /\ p <= b.off + Len(b.rows)
        THEN [b EXCEPT !.rows[p - b.off] = Marked(@)]
        ELSE b

\* the sink the tick is standing in assigns to a row of the array it was
\* called with
HookWrites ==
    /\ stack # <<>>
    /\ Top.pc \in {"log_start", "log", "plot"}
    /\ Len(obs.tampered) < MaxWrites
    /\ \E i \in DOMAIN Top.arg.rows :
          LET a == Top.arg
              table == [rows |-> self.data.buf, base |-> Len(self.data.buf), off |-> 0]
          IN  /\ self' = [self EXCEPT !.data.buf = Through(a, i, table).rows]
              /\ stack' = [h \in DOMAIN stack |->
                              [stack[h] EXCEPT !.arg = Through(a, i, @)]]
              /\ obs' = [obs EXCEPT !.tampered =
                            Append(@, [run |-> obs.run, tick |-> Top.tick,
                                       pc |-> Top.pc, k |-> Top.k, row |-> a.off + i])]
    /\ UNCHANGED <<now, user, csv, itn>>

Next ==
    \/ Start
    \/ Stop
    \/ OnTimer
    \/ HookReturns
    \/ MeasureReturns
    \/ HookRaises
    \/ HookStops
    \/ HookProcessesEvents

\* the experiment, driven by the event loop and by start() and stop()
Spec == Init /\ [][Next]_vars

\* constructed without conditions, running on or ending after two samples
DataInit ==
    /\ Init
    /\ self.conditions = CondNone
    /\ obs.given \in {NoneArg, 2}

\* ... with a user that also calls wait_finished()
NextWait ==
    \/ Next
    \/ WaitFinished
    \/ WaitReturns

\* conditions of one row
CondOne == << <<"v", <<PyInt(1)>> >> >>

\* constructed for a run that ends by itself after one measurement
WaitInit ==
    /\ \E c \in {CondOne, CondNone} :
          /\ self = New(c, 1)
          /\ obs = [NoObs EXCEPT !.given = 1]
    /\ stack = <<>>
    /\ now = 0
    /\ user = NoUser
    /\ csv = NoFile
    /\ itn = NoCall

\* the event loop delivers the timeout of an armed timer, the hooks return,
\* and the loop of wait_finished() goes on
WaitSpec ==
    /\ WaitInit
    /\ [][NextWait]_vars
    /\ WF_vars(OnTimer)
    /\ WF_vars(HookReturns)
    /\ WF_vars(MeasureReturns)
    /\ WF_vars(WaitReturns)

\* ... with a user that also calls get_data() and writes to the arrays
NextData ==
    \/ Next
    \/ GetData
    \/ WriteSnapshot

DataSpec == DataInit /\ [][NextData]_vars

\* ... with sinks that also assign to the arrays they are called with
NextSink ==
    \/ Next
    \/ HookWrites

SinkSpec == DataInit /\ [][NextSink]_vars

\* a CsvLogger constructed with any separator, and the experiment at rest
CsvInit ==
    /\ self = New(CondNone, NoneArg)
    /\ obs = NoObs
    /\ stack = <<>>
    /\ now = 0
    /\ user = NoUser
    /\ itn = NoCall
    /\ \E sep \in Separators : csv = [NoFile EXCEPT !.sep = sep]

NextCsv ==
    \/ CsvStart
    \/ CsvLog
    \/ CsvFinish
    \/ ReadCsv

\* a file is written by the logger and then read back
CsvSpec == CsvInit /\ [][NextCsv]_vars

\* one call of read(), and the experiment at rest
ItnInit ==
    /\ self = New(CondNone, NoneArg)
    /\ obs = NoObs
    /\ stack = <<>>
    /\ now = 0
    /\ user = NoUser
    /\ csv = NoFile
    /\ itn = NoCall

NextItn ==
    \/ ItnRead
    \/ ItnRequest
    \/ ItnReceive
    \/ ItnReplyEnds

\* the call runs on: the thread is scheduled, the port's read() returns
ItnSpec == ItnInit /\ [][NextItn]_vars /\ WF_vars(NextItn)

----------------------------------------------------------------------------
(* Helpers of the properties *)

\* the condition rows of the experiment, as given to the constructor
ConditionRows == ZipRows([i \in DOMAIN self.conditions |-> self.conditions[i][2]])

\* the entries of the current run in a sequence of tagged entries
OfRun(seq) == SelectSeq(seq, LAMBDA e : e.run = obs.run)

\* the rows stored by the ticks of the current run, in the order of the appends
RunRows == [i \in DOMAIN OfRun(obs.accepted) |-> OfRun(obs.accepted)[i].row]

\* a stored row holds the values of a record (1 == 1.0 in Python)
RowEquals(row, vals) ==
    /\ Len(row) = Len(vals)
    /\ \A j \in DOMAIN vals :
          /\ row[j].v = vals[j].v
          /\ (row[j].k = "str") = (vals[j].k = "str")

LastThrown == obs.thrown[Len(obs.thrown)]

----------------------------------------------------------------------------
(* C1: sweep order and termination.  For conditions of N >= 1 rows and R    *)
(* measurements per condition the ticks of a run write row 0 R times, then  *)
(* row 1 R times, ... and never more than N*R records; the tick that        *)
(* follows the N*R-th takes no measurement, appends nothing, raises nothing *)
(* and stops the timer.                                                     *)

C1_Order ==
    self.conditions # <<>> =>
        /\ Len(obs.applied) <= Len(ConditionRows) * self.measurements_per_condition
        /\ \A j \in DOMAIN obs.applied :
              obs.applied[j] =
                  ConditionRows[((j - 1) \div self.measurements_per_condition) + 1]

C1_LastTick ==
    (/\ obs'.ticks = obs.ticks + 1
     /\ stack = <<>>
     /\ Len(ConditionRows) >= 1
     /\ obs.runTicks = Len(ConditionRows) * self.measurements_per_condition)
    => (/\ obs'.measured = obs.measured
        /\ obs'.applied = obs.applied
        /\ self'.data = self.data
        /\ self'.len = self.len
        /\ obs'.thrown = obs.thrown
        /\ obs'.errors = obs.errors
        /\ stack' = stack
        /\ ~self'.timer)

C1_SweepDeterminism == [](C1_Order) /\ [][C1_LastTick]_vars

C1_Witness ==
    /\ self.conditions = CondV
    /\ self.measurements_per_condition = 2
    /\ obs.ended = "exhausted"
    /\ obs.applied = << <<PyInt(1)>>, <<PyInt(1)>>, <<PyInt(2)>>, <<PyInt(2)>> >>
    /\ obs.runTicks = 5
    /\ obs.measured = 4

----------------------------------------------------------------------------
(* C2: logger lifecycle.  When a run whose hooks neither raised nor called  *)
(* back into the experiment has produced k >= 1 samples and was then ended  *)
(* by stop() or by the exhausted sweep, every logger has received, for that *)
(* run: start with the first sample, log for each of the k samples in       *)
(* order, then finish, and nothing else.                                    *)

Lifecycle(rows) ==
    << [op |-> "start", row |-> rows[1], run |-> obs.run] >>
    \o [i \in DOMAIN rows |-> [op |-> "log", row |-> rows[i], run |-> obs.run]]
    \o << [op |-> "finish", row |-> <<>>, run |-> obs.run] >>

RunEndedRegularly ==
    /\ obs.run >= 1
    /\ stack = <<>>
    /\ obs.runStops = 1
    /\ obs.ended \in {"stop", "exhausted"}
    /\ ~obs.failed
    /\ ~obs.reentered

C2_LoggerLifecycle ==
    (RunEndedRegularly /\ Len(RunRows) >= 1) =>
        \A l \in DOMAIN Loggers : OfRun(obs.calls[l]) = Lifecycle(RunRows)

C2_Witness ==
    /\ RunEndedRegularly
    /\ obs.ended = "exhausted"
    /\ Len(RunRows) = 2
    /\ obs.run = 2
    /\ \A l \in DOMAIN Loggers : Len(OfRun(obs.calls[l])) = 4

----------------------------------------------------------------------------
(* C3: fail-stop row count.  When the measurement function raises on tick   *)
(* k >= 2 of a run whose hooks did not call back into the experiment, the   *)
(* error leaves _on_timer, the timer is stopped, and get_data() returns     *)
(* without error a table that ends with exactly the k-1 rows of the earlier *)
(* ticks of the run, as they were stored; on an experiment started once     *)
(* these k-1 rows are the whole table.                                      *)

MeasureFailed ==
    /\ obs.failed
    /\ ~obs.reentered
    /\ stack = <<>>
    /\ LastThrown.origin = "measure"
    /\ LastThrown.tick >= 2

C3_FailStop ==
    MeasureFailed =>
        LET k == LastThrown.tick
            got == get_data(self)
            n == Len(got.rows)
        IN  /\ obs.errors = Len(obs.thrown)
            /\ ~self.timer
            /\ ~got.raised
            /\ Len(RunRows) = k - 1
            /\ n >= k - 1
            /\ SubSeq(got.rows, n - (k - 1) + 1, n) = RunRows
            /\ (obs.run = 1 => n = k - 1)

C3_Witness ==
    /\ MeasureFailed
    /\ LastThrown.tick = 4
    /\ obs.run = 1
    /\ Len(get_data(self).rows) = 3

----------------------------------------------------------------------------
(* C4: every exception raised inside a tick leaves _on_timer, and the timer *)
(* is stopped before it does: once a tick of a run has raised, the timer    *)
(* stays inactive and no tick begins until start() is called again.         *)

C4_FailureDisarms ==
    /\ obs.errors = Len(obs.thrown)
    /\ obs.failed => ~self.timer
    /\ obs.lateTicks = 0

C4_Witness ==
    /\ obs.failed
    /\ LastThrown.origin = "log"
    /\ obs.errors = 1
    /\ stack = <<>>

----------------------------------------------------------------------------------------------------------------------------------------
(* C5: schema freeze.  As claimed: the column names of the table are those  *)
(* of the first accepted record, in its order; every later record with the  *)
(* same column tuple is appended (the snapshot grows by exactly that row);  *)
(* a record with other columns or another order is refused: RuntimeError    *)
(* leaves _on_timer, the timer is stopped, table and length stay as they    *)
(* were.                                                                    *)
(* As amended: a later record with the same column tuple is appended when   *)
(* its values convert to the types of the columns; when one does not (a     *)
(* text for a column created from a number) the store raises ValueError and *)
(* the record is refused like one with other columns.                       *)

C5_Frozen ==
    self.data # None =>
        /\ obs.accepted # <<>>
        /\ Names(self.data) = obs.accepted[1].record.cols

Offered == Len(obs'.offered) = Len(obs.offered) + 1

LastOffered == obs'.offered[Len(obs'.offered)]

Fits(m) == \A i \in DOMAIN m.vals : Convertible(self.data.dtype[i][2], m.vals[i])

\* the record m became the last row of the snapshot, the other rows are as before
Appended(m) ==
    LET before == get_data(self)
        after == get_data(self')
    IN  /\ self'.data.dtype = self.data.dtype
        /\ Len(after.rows) = Len(before.rows) + 1
        /\ SubSeq(after.rows, 1, Len(before.rows)) = before.rows
        /\ RowEquals(after.rows[Len(after.rows)], m.vals)
        /\ obs'.errors = obs.errors
        /\ self'.timer = self.timer

\* the record was refused with the exception e
Refused(e) ==
    /\ get_data(self') = get_data(self)
    /\ self'.len = self.len
    /\ ~self'.timer
    /\ obs'.errors = obs.errors + 1
    /\ obs'.thrown = Append(obs.thrown, [origin |-> e, run |-> obs.run, tick |-> Top.tick])

C5_OfferAsClaimed ==
    (Offered /\ self.data # None) =>
        IF LastOffered.cols = Names(self.data)
        THEN Appended(LastOffered)
        ELSE Refused("RuntimeError") /\ self'.data = self.data

C5_SchemaFreezeAsClaimed == [](C5_Frozen) /\ [][C5_OfferAsClaimed]_vars

C5_Offer ==
    Offered =>
        IF self.data = None
        THEN /\ Names(self'.data) = LastOffered.cols
             /\ Len(get_data(self').rows) = 1
        ELSE IF LastOffered.cols # Names(self.data)
        THEN Refused("RuntimeError") /\ self'.data = self.data
        ELSE IF Fits(LastOffered)
        THEN Appended(LastOffered)
        ELSE Refused("ValueError")

C5_SchemaFreeze == [](C5_Frozen) /\ [][C5_Offer]_vars

C5_Witness ==
    /\ obs.failed
    /\ LastThrown.origin = "RuntimeError"
    /\ obs.offered[Len(obs.offered)].cols = <<"time", "v", "u", "y">>
    /\ Len(obs.accepted) = 2
    /\ self.len = 2

----------------
(* C6: growth correctness.  After N accepted appends the snapshot has       *)
(* exactly N rows, the i-th holding the values of the i-th appended record; *)
(* no row of the snapshot is unwritten memory.                              *)

C6_Growth ==
    IF self.data = None
    THEN obs.accepted = <<>>
    ELSE LET got == get_data(self)
         IN  /\ ~got.raised
             /\ Len(got.rows) = Len(obs.accepted)
             /\ \A i \in DOMAIN got.rows :
                   /\ got.rows[i] # Uninit
                   /\ RowEquals(got.rows[i], obs.accepted[i].record.vals)

C6_Witness ==
    /\ Len(obs.accepted) = 5
    /\ Len(self.data.buf) = 8
    /\ Len(get_data(self).rows) = 5

----------------------------------------------------------------------------
(* C7: get_data() returns a snapshot, without raising, in every state.      *)

C7_GetDataNeverRaises == ~get_data(self).raised

----------------------------------------------------------------------------
(* C8: get_data() returns the rows accepted since the latest start() only.  *)

C8_OnlyCurrentRun ==
    (obs.run >= 1 /\ ~get_data(self).raised) => get_data(self).rows = RunRows

----------------------------------------------------------------------------
(* C9: a tick never begins while another tick of the experiment is still    *)
(* in progress.                                                             *)

----------------------------------------------------------------------------------------------------------------------------------------
(* C10: clean restart.  start() on a running experiment first ends the      *)
(* active run as stop() would: every logger that is open (started and not   *)
(* finished) receives finish before the new run begins.                     *)

IsOpen(calls) ==
    \E j \in DOMAIN calls :
        /\ calls[j].op = "start"
        /\ \A h \in (j + 1)..Len(calls) : calls[h].op # "finish"

C10_Restart ==
    (self.timer /\ obs'.run = obs.run + 1) =>
        \A l \in DOMAIN Loggers :
            IsOpen(obs.calls[l]) =>
                obs'.calls[l] = Append(obs.calls[l],
                                       [op |-> "finish", row |-> <<>>, run |-> obs.run])

C10_CleanRestart == [][C10_Restart]_vars

----------------------------------------------------------------------------
(* C11: finish once per run.  Over any sequence of start(), ticks and       *)
(* stop() calls no logger receives more than one finish for one run, also   *)
(* when stop() is called on an instance that is already stopped or whose    *)
(* sweep already ended the run.                                             *)

Finishes(calls, r) == SelectSeq(calls, LAMBDA e : e.op = "finish" /\ e.run = r)

C11_FinishOncePerRun ==
    \A l \in DOMAIN Loggers : \A r \in 1..obs.run :
        Len(Finishes(obs.calls[l], r)) <= 1

----------------------------------------------------------------------------
(* C13: a condition set whose value sequences differ in length is refused   *)
(* when the sweep is built: the timer is never armed for it and no          *)
(* measurement is ever taken with it.                                       *)

Uneven(conditions) ==
    \E i, j \in DOMAIN conditions : Len(conditions[i][2]) # Len(conditions[j][2])

C13_UnevenRejected ==
    Uneven(self.conditions) => (~self.timer /\ obs.ticks = 0 /\ obs.measured = 0)

----------------------------------------------------------------------------
(* C12: no-condition default.  As claimed: in an experiment without         *)
(* conditions every tick takes a measurement on a record without condition  *)
(* columns and leaves the timer armed, whatever measurements_per_condition  *)
(* was given; the sweep never ends the run.                                 *)
(* As amended: this holds when measurements_per_condition was left at its   *)
(* default, which is infinity without conditions.  With an explicit repeat  *)
(* count R the run takes R measurements and tick R+1 ends it as an          *)
(* exhausted sweep does: no measurement, no error, timer stopped.           *)

TickBegins == obs'.ticks = obs.ticks + 1

\* the tick that began stands in the measurement function with a record
\* holding time only; the timer is as it was
TickMeasures ==
    /\ stack' # <<>>
    /\ stack'[Len(stack')].pc = "measure"
    /\ stack'[Len(stack')].measurement.cols = <<"time">>
    /\ obs'.measured = obs.measured + 1
    /\ self'.timer = self.timer
    /\ obs'.ended = obs.ended

\* the tick that began ended the run without a measurement and without error
TickEndsRun ==
    /\ stack' = stack
    /\ obs'.measured = obs.measured
    /\ obs'.errors = obs.errors
    /\ self'.data = self.data
    /\ ~self'.timer

C12_NeverExhausted ==
    self.conditions = <<>> => obs.ended # "exhausted"

C12_TickAsClaimed ==
    (TickBegins /\ self.conditions = <<>>) => TickMeasures

C12_NoConditionDefaultAsClaimed ==
    [](C12_NeverExhausted) /\ [][C12_TickAsClaimed]_vars

C12_Unbounded ==
    (self.conditions = <<>> /\ obs.given = NoneArg) => obs.ended # "exhausted"

C12_Tick ==
    (TickBegins /\ self.conditions = <<>>) =>
        IF obs.given # NoneArg /\ obs.runTicks >= obs.given
        THEN TickEndsRun
        ELSE TickMeasures

C12_NoConditionDefault == [](C12_Unbounded) /\ [][C12_Tick]_vars

C12_Witness ==
    /\ self.conditions = <<>>
    /\ obs.given = NoneArg
    /\ obs.run = 1
    /\ obs.runTicks = MaxTicks
    /\ Len(obs.accepted) = MaxTicks
    /\ self.timer
    /\ stack = <<>>

----------------------------------------------------------------------------
(* C14: start() resets the sweep.  Whatever the instance did before, the    *)
(* first tick after start() of an experiment with N >= 1 condition rows     *)
(* writes row 0 into its record, calls apply_condition with it, and leaves  *)
(* the repeat counter at 1.                                                 *)

ConditionNames == [i \in DOMAIN self.conditions |-> self.conditions[i][1]]

C14_FirstTick ==
    (TickBegins /\ obs.runTicks = 0 /\ Len(ConditionRows) >= 1) =>
        LET f == stack'[Len(stack')]
            e == obs'.conditioned[Len(obs'.conditioned)]
        IN  /\ stack' # <<>>
            /\ f.pc = "apply"
            /\ f.condition_changed
            /\ f.tick = 1
            /\ f.measurement.cols = <<"time">> \o ConditionNames
            /\ Tail(f.measurement.vals) = ConditionRows[1]
            /\ self'.variable_values = ConditionRows[1]
            /\ self'.measurements_for_condition = 1
            /\ Len(obs'.conditioned) = Len(obs.conditioned) + 1
            /\ e.run = obs.run /\ e.tick = 1 /\ e.record = f.measurement

C14_StartResetsSweep == [][C14_FirstTick]_vars

C14_Witness ==
    /\ self.conditions = CondV
    /\ self.measurements_per_condition = 1
    /\ obs.run = 2
    /\ obs.ticks = 3
    /\ obs.runTicks = 1
    /\ stack # <<>>
    /\ Top.pc = "apply"
    /\ obs.applied = << <<PyInt(1)>> >>
    /\ self.variable_values_iter = << <<PyInt(2)>> >>

----------------------------------------------------------------------------
(* C15: apply_condition exactly on the change of the condition row.  In a   *)
(* run with conditions and R measurements per condition the hook has been   *)
(* called once for each of the ticks 1, R+1, 2R+1, ... begun so far, at     *)
(* most once per condition row, with a record holding time and the values   *)
(* of the new row and nothing else; the measurement function of a tick runs *)
(* after the call of that tick; a tick that repeats a row, the terminating  *)
(* tick and a run without conditions see no call.                           *)

ChangeTicks(n, R) == {j \in 1..n : (j - 1) % R = 0}

C15_Calls ==
    LET calls == OfRun(obs.conditioned)
        R == self.measurements_per_condition
    IN  IF self.conditions = <<>>
        THEN obs.conditioned = <<>>
        ELSE /\ Len(calls) = Cardinality(ChangeTicks(Len(obs.applied), R))
             /\ Len(calls) <= Len(ConditionRows)
             /\ \A i \in DOMAIN calls :
                   /\ calls[i].tick = (i - 1) * R + 1
                   /\ calls[i].record.cols = <<"time">> \o ConditionNames
                   /\ calls[i].record.vals[1].k = "float"
                   /\ Tail(calls[i].record.vals) = ConditionRows[i]

\* the measurement function is entered: the hook was called before, for this
\* tick, exactly when the tick changed the condition row
C15_BeforeMeasure ==
    (obs'.measured = obs.measured + 1) =>
        LET f == stack'[Len(stack')]
        IN  f.condition_changed <=>
                \E i \in DOMAIN obs.conditioned :
                    /\ obs.conditioned[i].run = obs.run
                    /\ obs.conditioned[i].tick = f.tick

C15_ApplyOnChange == [](C15_Calls) /\ [][C15_BeforeMeasure]_vars

C15_Witness ==
    /\ self.conditions = CondVW
    /\ self.measurements_per_condition = 2
    /\ obs.ended = "exhausted"
    /\ obs.runTicks = 5
    /\ Len(OfRun(obs.conditioned)) = 2
    /\ OfRun(obs.conditioned)[2].tick = 3
    /\ Tail(OfRun(obs.conditioned)[2].record.vals) = <<PyInt(2), PyInt(8)>>
    /\ obs.measured = 4

----------------------------------------------------------------------------
(* C16: no rollback on sink failure.  When a logger (start or log) or a     *)
(* plot hook raises on tick k of a run whose hooks did not call back into   *)
(* the experiment, the error leaves _on_timer, the timer is stopped, and    *)
(* the row of tick k stays: get_data() returns a table that ends with the   *)
(* k rows of the run, the last one holding the record of tick k; on an      *)
(* experiment started once these k rows are the whole table.                *)

SinkFailed ==
    /\ obs.failed
    /\ ~obs.reentered
    /\ stack = <<>>
    /\ LastThrown.origin \in {"log_start", "log", "plot"}

C16_NoRollback ==
    SinkFailed =>
        LET k == LastThrown.tick
            got == get_data(self)
            n == Len(got.rows)
            last == obs.accepted[Len(obs.accepted)]
        IN  /\ obs.errors = Len(obs.thrown)
            /\ ~self.timer
            /\ ~got.raised
            /\ Len(RunRows) = k
            /\ n >= k
            /\ SubSeq(got.rows, n - k + 1, n) = RunRows
            /\ last.run = obs.run
            /\ RowEquals(got.rows[n], last.record.vals)
            /\ (obs.run = 1 => n = k)

C16_Witness ==
    /\ SinkFailed
    /\ LastThrown.origin = "plot"
    /\ LastThrown.tick = 3
    /\ obs.run = 1
    /\ Len(get_data(self).rows) = 3

----------------------------------------------------------------------------
(* C18: type promotion.  A column whose value in the first accepted record  *)
(* is an int has the type float, one whose first value is a str has the     *)
(* type object, and every stored value of a float column is a float; a      *)
(* later record with the same columns that carries a fractional value       *)
(* (n + 0.5) in a column that began with an int is appended without error   *)
(* and the fraction is stored as it is.                                     *)

Fractional(value) == value.k = "float" /\ value.v % 2 = 1

C18_Types ==
    self.data # None =>
        LET first == obs.accepted[1].record
            got == get_data(self)
        IN  \A i \in DOMAIN self.data.dtype :
                /\ first.vals[i].k \in {"int", "float"} => self.data.dtype[i][2] = "float"
                /\ first.vals[i].k = "str" => self.data.dtype[i][2] = "object"
                /\ self.data.dtype[i][2] = "float" =>
                       \A r \in DOMAIN got.rows : got.rows[r][i].k = "float"

C18_LateFraction ==
    (/\ Offered
     /\ self.data # None
     /\ LastOffered.cols = Names(self.data)
     /\ Fits(LastOffered)
     /\ \E i \in DOMAIN LastOffered.vals :
           /\ Fractional(LastOffered.vals[i])
           /\ obs.accepted[1].record.vals[i].k = "int")
    => (/\ Appended(LastOffered)
        /\ obs'.thrown = obs.thrown
        /\ \A i \in DOMAIN LastOffered.vals :
              Fractional(LastOffered.vals[i]) =>
                  get_data(self').rows[self'.len][i] = LastOffered.vals[i])

C18_TypePromotion == [](C18_Types) /\ [][C18_LateFraction]_vars

C18_Witness ==
    /\ Len(obs.accepted) >= 3
    /\ self.len = Len(obs.accepted)
    /\ obs.accepted[1].record.vals[2] = PyInt(1)
    /\ obs.accepted[2].record.vals[2] = PyFloat(5)
    /\ self.data.dtype[2] = <<"y", "float">>
    /\ get_data(self).rows[1][2] = PyFloat(2)
    /\ get_data(self).rows[2][2] = PyFloat(5)
    /\ obs.errors = 0

----------------------------------------------------------------------------
(* C19: record shape end to end.  As claimed: when a run of k ticks was     *)
(* ended by stop(), the table ends with the k rows of the run (it is these  *)
(* k rows on an experiment started once); its columns are time, then the    *)
(* swept variables in the order of the condition set, then the columns the  *)
(* measurement function added; the time of a row is the clock reading of    *)
(* its tick minus that of start(), and strictly increases over the rows.    *)
(* As amended: the time does not decrease over the rows; the rows of two    *)
(* ticks between which time.monotonic() did not advance hold the same time. *)

StoppedRun ==
    /\ obs.run >= 1
    /\ stack = <<>>
    /\ obs.ended = "stop"
    /\ ~obs.failed
    /\ ~obs.reentered

TimeOf(row) == row[1]

Ordered(rows, strictly) ==
    \A i \in DOMAIN rows : \A j \in DOMAIN rows :
        i < j => IF strictly THEN TimeOf(rows[i]).v < TimeOf(rows[j]).v
                 ELSE TimeOf(rows[i]).v <= TimeOf(rows[j]).v

Shape(strictly) ==
    LET k == obs.runTicks
        got == get_data(self)
        n == Len(got.rows)
        fixed == <<"time">> \o ConditionNames
    IN  k >= 1 =>
        /\ ~got.raised
        /\ Len(RunRows) = k
        /\ n >= k
        /\ SubSeq(got.rows, n - k + 1, n) = RunRows
        /\ (obs.run = 1 => n = k)
        /\ SubSeq(Names(self.data), 1, Len(fixed)) = fixed
        /\ \A i \in DOMAIN OfRun(obs.accepted) :
              LET e == OfRun(obs.accepted)[i]
              IN  /\ e.record.cols = Names(self.data)
                  /\ Len(e.record.cols) > Len(fixed)
                  /\ RowEquals(RunRows[i], e.record.vals)
        /\ \A i \in DOMAIN RunRows :
              /\ TimeOf(RunRows[i]).k = "float"
              /\ TimeOf(RunRows[i]).v >= 0
              /\ TimeOf(RunRows[i]).v <= 2 * (now - obs.started)
        /\ Ordered(RunRows, strictly)

\* the record of a tick holds the clock reading of the tick minus that of start()
C19_Elapsed ==
    (TickBegins /\ Len(stack') > Len(stack)) =>
        stack'[Len(stack')].measurement.vals[1] = PyFloat(2 * (now' - obs.started))

C19_RecordShapeAsClaimed ==
    [](StoppedRun => Shape(TRUE)) /\ [][C19_Elapsed]_vars

C19_RecordShape ==
    [](StoppedRun => Shape(FALSE)) /\ [][C19_Elapsed]_vars

C19_Witness ==
    /\ StoppedRun
    /\ self.conditions = <<>>
    /\ obs.run = 1
    /\ obs.runTicks = 3
    /\ Names(self.data) = <<"time", "y", "u">>
    /\ Len(get_data(self).rows) = 3
    /\ \A i \in 1..3 : get_data(self).rows[i][3] = PyFloat(0)
    /\ Ordered(get_data(self).rows, TRUE)

----------------------------------------------------------------------------
(* C17: wait_finished().  It returns only when the timer is inactive; and   *)
(* when the timer fires fairly and the hooks return, a caller waiting on a  *)
(* stopped or failed experiment, or on a run with a finite number of ticks  *)
(* left, does return.                                                       *)

C17_Returns == (user.waiting /\ ~user'.waiting) => (~self.timer /\ ~self'.timer)

\* the ticks the run takes until its sweep is exhausted, the last included
RunLength ==
    IF self.conditions # <<>>
    THEN Len(ConditionRows) * self.measurements_per_condition + 1
    ELSE self.measurements_per_condition + 1

\* the run ends by itself, within the ticks of one behaviour
RunIsFinite ==
    /\ self.measurements_per_condition # Inf
    /\ (obs.ticks - obs.runTicks) + RunLength <= MaxTicks

C17_WaitFinished ==
    /\ [][C17_Returns]_vars
    /\ (user.waiting /\ (~self.timer \/ RunIsFinite)) ~> ~user.waiting

C17_Witness ==
    /\ user.waits = 1
    /\ ~user.waiting
    /\ user.called = <<1, 0>>
    /\ user.returned = 2
    /\ obs.run = 1
    /\ obs.ended = "exhausted"
    /\ self.conditions = CondOne
    /\ Len(obs.accepted) = 1
    /\ ~self.timer

----------------------------------------------------------------------------
(* C20: get_data() returns an independent copy.  An assignment to a row of  *)
(* an array that get_data() returned changes that row of that array and     *)
(* nothing else: not the table, not another array; and whatever else        *)
(* happens (rows appended, the buffer doubled, stop, start) changes no      *)
(* array returned before.  The table never shows a value the user wrote.    *)

C20_Step ==
    IF Len(user'.writes) = Len(user.writes) + 1
    THEN LET t == user'.writes[Len(user'.writes)]
         IN  /\ self' = self
             /\ Len(user'.snaps) = Len(user.snaps)
             /\ \A h \in DOMAIN user.snaps :
                   IF h = t.snap
                   THEN user'.snaps[h] =
                            [user.snaps[h] EXCEPT !.rows[t.row] = Marked(@)]
                   ELSE user'.snaps[h] = user.snaps[h]
    ELSE /\ \A h \in DOMAIN user.snaps : user'.snaps[h] = user.snaps[h]
         /\ Len(user'.snaps) > Len(user.snaps) =>
               /\ self' = self
               /\ user'.snaps[Len(user'.snaps)].rows = SubSeq(self.data.buf, 1, self.len)

C20_TableClean ==
    \A i \in 1..self.len : self.data.buf[i][1] # PyFloat(-2)

C20_IndependentCopy == [](C20_TableClean) /\ [][C20_Step]_vars

C20_Witness ==
    /\ Len(user.snaps) = 2
    /\ user.writes = << [snap |-> 1, row |-> 1] >>
    /\ Len(user.snaps[1].rows) = 2
    /\ Len(user.snaps[2].rows) = 3
    /\ user.snaps[1].rows[1][1] = PyFloat(-2)
    /\ user.snaps[2].rows[1][1] # PyFloat(-2)
    /\ self.len = 5
    /\ Len(self.data.buf) = 8
    /\ SubSeq(self.data.buf, 1, 3) = user.snaps[2].rows

----------------------------------------------------------------------------
(* C22: tick pipeline order.  Every tick that accepts a sample takes its    *)
(* steps in this order, each at most once: the elapsed time is computed,    *)
(* the sweep is advanced or the repeat counter incremented, the condition   *)
(* values are written into the record, apply_condition is called (only when *)
(* the row changed), then the measurement function, then the schema check   *)
(* and the append, then logger start (only on the first accepted sample of  *)
(* the run), then logger log with the row just appended, then the plot      *)
(* hooks with the table of all accepted rows, the new one included.         *)

\* the hook that follows the hook of frame f in the pipeline; first tells
\* whether the sample of the tick is the first one accepted in the run
Successor(f, first) ==
    CASE f.pc = "apply" ->
            IF f.k < Len(ApplyHooks) THEN <<"apply", f.k + 1>> ELSE <<"measure", 1>>
      [] f.pc = "measure" ->
            IF first THEN <<"log_start", 1>> ELSE <<"log", 1>>
      [] f.pc = "log_start" ->
            IF f.k < Len(Loggers) THEN <<"log_start", f.k + 1>> ELSE <<"log", 1>>
      [] f.pc = "log" ->
            IF f.k < Len(Loggers) THEN <<"log", f.k + 1>> ELSE <<"plot", 1>>
      [] OTHER -> <<"plot", f.k + 1>>

\* a tick begins and reaches its first hook
C22_Begin ==
    (TickBegins /\ Len(stack') > Len(stack)) =>
        LET f == stack'[Len(stack')]
            advanced == self'.variable_values_iter # self.variable_values_iter
        IN  /\ f.measurement.vals[1] = PyFloat(2 * (now' - obs.started))
            /\ IF advanced
               THEN self'.variable_values = Head(self.variable_values_iter)
               ELSE /\ self'.variable_values = self.variable_values
                    /\ self'.measurements_for_condition =
                           self.measurements_for_condition + 1
            /\ f.measurement.cols = <<"time">> \o ConditionNames
            /\ Tail(f.measurement.vals) = self'.variable_values
            /\ <<f.pc, f.k>> = IF advanced THEN <<"apply", 1>> ELSE <<"measure", 1>>
            /\ self'.len = self.len

\* the hook a tick stands in returns and the tick reaches its next hook
C22_Hook ==
    (stack # <<>> /\ Len(stack') = Len(stack) /\ stack' # stack) =>
        LET f == Top
            g == stack'[Len(stack')]
            row == self'.data.buf[g.idx + 1]
            table == obs'.plotted[Len(obs'.plotted)].rows
        IN  /\ g.tick = f.tick
            /\ <<g.pc, g.k>> = Successor(f, OfRun(obs.accepted) = <<>>)
            /\ IF f.pc = "measure"
               THEN /\ self'.len = self.len + 1
                    /\ g.idx + 1 = self'.len
                    /\ Len(obs'.accepted) = Len(obs.accepted) + 1
                    /\ obs'.measured = obs.measured
               ELSE /\ self'.len = self.len
                    /\ g.idx = f.idx
                    /\ g.measurement = f.measurement
            /\ g.pc \in {"log_start", "log"} =>
                  /\ RowEquals(row, g.measurement.vals)
                  /\ obs'.calls[g.k] =
                        Append(obs.calls[g.k],
                               [op |-> IF g.pc = "log_start" THEN "start" ELSE "log",
                                row |-> row, run |-> obs.run])
            /\ g.pc = "plot" =>
                  /\ Len(obs'.plotted) = Len(obs.plotted) + 1
                  /\ Len(table) = Len(obs.accepted)
                  /\ \A i \in DOMAIN table :
                        RowEquals(table[i], obs.accepted[i].record.vals)
                  /\ table[g.idx + 1] = row
                  /\ RowEquals(row, g.measurement.vals)

----------------------------------------------------------------------------
(* C23: table capacity.  Whenever a table exists, 0 <= length <= capacity   *)
(* and the capacity is 2 * 2^j for some j >= 0; the table is created with   *)
(* capacity 2, the capacity changes only by doubling, at an append that     *)
(* finds the length equal to the capacity, and every append writes the row  *)
(* at an index below the capacity.                                          *)

Capacity(s) == Len(s.data.buf)

IsCapacity(n) == \E j \in 0..MaxTicks : n = 2 * 2^j

C23_Bounds ==
    self.data # None =>
        /\ 0 <= self.len
        /\ self.len <= Capacity(self)
        /\ IsCapacity(Capacity(self))
        /\ \A i \in 1..Capacity(self) : (self.data.buf[i] = Uninit) <=> (i > self.len)

C23_Change ==
    /\ (self.data = None /\ self'.data # None) => (Capacity(self') = 2 /\ Offered)
    /\ self.data # None =>
          /\ self'.data # None
          /\ Capacity(self') # Capacity(self) =>
                /\ Capacity(self') = 2 * Capacity(self)
                /\ self.len = Capacity(self)
                /\ Offered
          /\ (Offered /\ self.len = Capacity(self) /\ LastOffered.cols = Names(self.data))
                => Capacity(self') = 2 * Capacity(self)
    /\ self'.len # self.len =>
          /\ self'.len = self.len + 1
          /\ Offered
          /\ self.len < Capacity(self')
          /\ self'.data.buf[self.len + 1] # Uninit

C23_TableCapacity == [](C23_Bounds) /\ [][C23_Change]_vars

C23_Witness ==
    /\ self.data # None
    /\ Capacity(self) = 8
    /\ self.len = 5
    /\ self.data.buf[6] = Uninit
    /\ obs.run = 2
    /\ obs.errors = 0
    /\ stack = <<>>

----------------------------------------------------------------------------
(* C24: stop() does not cancel the tick in progress.  When a hook (the      *)
(* measurement function, apply_condition or a sink) calls stop(), the tick  *)
(* stays where it is, and unless it raises it goes on through each of its   *)
(* remaining steps (append, logger calls, plot calls) to its end; the timer *)
(* is inactive from the call on and no later tick of the run begins.        *)

\* stop() was called from a hook of the tick of frame f
StoppedInFlight(f) ==
    \E i \in DOMAIN obs.inflight :
        obs.inflight[i].run = obs.run /\ obs.inflight[i].tick = f.tick

HookCalledStop == Len(obs'.inflight) = Len(obs.inflight) + 1

C24_NotCancelled ==
    HookCalledStop =>
        /\ stack' = stack
        /\ self'.data = self.data
        /\ self'.len = self.len
        /\ ~self'.timer
        /\ obs'.errors = obs.errors

C24_Completes ==
    (/\ stack # <<>>
     /\ StoppedInFlight(Top)
     /\ stack' # stack
     /\ obs'.errors = obs.errors)
    => IF Top.pc = "plot" /\ Top.k = Len(PlotHooks)
       THEN stack' = Below
       ELSE LET g == stack'[Len(stack')]
            IN  /\ Len(stack') = Len(stack)
                /\ g.tick = Top.tick
                /\ <<g.pc, g.k>> = Successor(Top, self.first)
                /\ Top.pc = "measure" =>
                      /\ self'.len = self.len + 1
                      /\ RowEquals(self'.data.buf[self'.len], g.measurement.vals)
                /\ g.pc \in {"log_start", "log"} =>
                      Len(obs'.calls[g.k]) = Len(obs.calls[g.k]) + 1
                /\ g.pc = "plot" =>
                      /\ Len(obs'.plotted) = Len(obs.plotted) + 1
                      /\ Len(obs'.plotted[Len(obs'.plotted)].rows) = self'.len

C24_NoLaterTick ==
    \A i \in DOMAIN obs.inflight :
        obs.inflight[i].run = obs.run =>
            /\ obs.runTicks = obs.inflight[i].ticks
            /\ ~self.timer

C24_StopInFlight ==
    /\ [](C24_NoLaterTick)
    /\ [][C24_NotCancelled /\ C24_Completes]_vars

C24_Witness ==
    /\ stack = <<>>
    /\ obs.inflight = << [run |-> 1, tick |-> 2, pc |-> "measure", k |-> 1, ticks |-> 2] >>
    /\ Len(obs.accepted) = 2
    /\ self.len = 2
    /\ Len(obs.plotted) = 2
    /\ obs.plotted[2].tick = 2
    /\ \A l \in DOMAIN Loggers :
          [j \in DOMAIN obs.calls[l] |-> obs.calls[l][j].op]
              = <<"start", "log", "finish", "log">>
    /\ obs.errors = 0
    /\ obs.runTicks = 2
    /\ ~self.timer

----------------------------------------------------------------------------
(* C27: logger ordering.  Under any interleaving of start(), ticks and      *)
(* stop(), also when stop() is called from inside a hook of a tick in       *)
(* progress, a logger receives within one run no log after the finish of    *)
(* that run and no log before its start.                                    *)

CallsOfRun(calls, r) == SelectSeq(calls, LAMBDA e : e.run = r)

C27_LoggerOrder ==
    \A l \in DOMAIN Loggers : \A r \in 0..obs.run :
        LET c == CallsOfRun(obs.calls[l], r)
        IN  \A j \in DOMAIN c :
                c[j].op = "log" =>
                    /\ \E i \in 1..(j - 1) : c[i].op = "start"
                    /\ \A i \in 1..(j - 1) : c[i].op # "finish"

----------------------------------------------------------------------------
(* C28: finish only after start.  A logger receives finish only after it    *)
(* received start in the same run; a run that ends without an accepted      *)
(* sample (stop() before the first tick, stop() without any start(), a      *)
(* sweep of zero rows) delivers no finish.                                  *)

C28_FinishAfterStart ==
    \A l \in DOMAIN Loggers : \A r \in 0..obs.run :
        LET c == CallsOfRun(obs.calls[l], r)
        IN  \A j \in DOMAIN c :
                c[j].op = "finish" => \E i \in 1..(j - 1) : c[i].op = "start"

----------------------------------------------------------------------------
(* C29: logger release on failure.  A logger that received start in a run   *)
(* eventually receives finish for that run, also when the run ended because *)
(* a tick raised: once the failed tick has left _on_timer with loggers      *)
(* still open, they are finished without anything the user has to do (the   *)
(* timer fires fairly and the hooks return).                                *)

\* logger l was started in the current run and not finished since
OpenInRun(l) == IsOpen(CallsOfRun(obs.calls[l], obs.run))

C29_ReleaseOnFailure ==
    \A l \in DOMAIN Loggers :
        (obs.failed /\ stack = <<>> /\ OpenInRun(l)) ~> ~OpenInRun(l)

----------------------------------------------------------------------------
(* C30: sample / sink accounting.  At every tick boundary of a run in which *)
(* no tick has failed, the rows appended in the run are as many as the log  *)
(* calls each logger received in the run and as the calls each plot hook    *)
(* received in the run; the table passed to the plot hooks on the j-th      *)
(* accepting tick of the run holds exactly j rows of the run (after the     *)
(* rows the table held before the run), and its last row is the row passed  *)
(* to log on that tick.                                                     *)

TickBoundary == stack = <<>> /\ obs.run >= 1 /\ ~obs.failed

LogsOfRun(l) == SelectSeq(obs.calls[l], LAMBDA e : e.run = obs.run /\ e.op = "log")

PlotsOfRun(k) == SelectSeq(obs.plotted, LAMBDA e : e.run = obs.run /\ e.k = k)

\* the rows the table held when the current run accepted its first sample
RowsBefore == Len(obs.accepted) - Len(OfRun(obs.accepted))

----------------------------------------------------------------------------
(* C25: the arrays handed to the sinks are copies.  When a logger or a plot *)
(* hook assigns to the row or table it was called with, the rows of the     *)
(* sample table and what get_data() returns stay as they were; and an array *)
(* a hook still holds is not changed by anything else the experiment does,  *)
(* in particular not by later appends.                                      *)

SinkWrote == Len(obs'.tampered) = Len(obs.tampered) + 1

\* the frames that are on the stack before and after the step
Kept == {h \in DOMAIN stack : h \in DOMAIN stack' /\ stack'[h].tick = stack[h].tick
                                /\ stack'[h].pc = stack[h].pc /\ stack'[h].k = stack[h].k}

C25_Step ==
    IF SinkWrote
    THEN /\ self'.data = self.data
         /\ get_data(self') = get_data(self)
    ELSE \A h \in Kept : stack'[h].arg = stack[h].arg

C25_SinksGetCopies == [][C25_Step]_vars

----------------------------------------------------------------------------
(* C21: CSV round trip.  For a file written by CsvLogger (the column names  *)
(* in the first line, then one line per logged row, the fields joined by    *)
(* the separator the logger was constructed with) read_csv returns, without *)
(* error, a table with the same column names in the same order and as many  *)
(* rows as were logged, whatever the separator is.                          *)

C21_RoundTrip ==
    csv.read.done =>
        /\ ~csv.read.raised
        /\ csv.read.names = [i \in DOMAIN csv.names |-> <<csv.names[i]>>]
        /\ Len(csv.read.rows) = Len(csv.logged)

----------------------------------------------------------------------------
(* C26: USB_ITN.read().  One call sends at most 5 requests, and another     *)
(* request only after a busy reply 918; it returns the parsed value on the  *)
(* first reply that starts with 01A; it raises TimeoutError on the reply    *)
(* 911 and when no reply ending in \r arrives within the reply timeout,     *)
(* IOError on any other reply and after 5 busy replies in a row; the call   *)
(* always ends, with a value or an error.                                   *)

\* the reply the call has received, without its closing \r
Body(c) == SubSeq(c.reply, 1, Len(c.reply) - 1)

Complete(c) == endswith(c.reply, CR)

C26_Bound ==
    /\ itn.sent <= Retries
    /\ itn.sent + itn.retries = (IF itn.pc = "idle" THEN 0 ELSE Retries)

C26_Step ==
    /\ itn'.sent # itn.sent =>
          /\ itn'.sent = itn.sent + 1
          /\ itn.sent = 0 \/ (Complete(itn) /\ Body(itn) = <<"9", "1", "8">>)
          /\ itn.busy = itn.sent
    /\ (itn.pc = "loop" /\ itn'.pc = "done") =>
          /\ itn.sent = Retries
          /\ itn.busy = Retries
          /\ itn'.raised = "IOError"
    /\ (itn.pc = "recv" /\ itn'.pc # "recv") =>
          IF ~Complete(itn)
          THEN /\ itn.waited = PerSecond * replytimeout
               /\ itn'.pc = "done" /\ itn'.raised = "TimeoutError"
          ELSE IF startswith(Body(itn), <<"0", "1", "A">>)
          THEN /\ itn'.pc = "done" /\ itn'.raised = ""
               /\ itn'.value = Decimal(SubSeq(Body(itn), 4, Len(Body(itn))))
          ELSE IF Body(itn) = <<"9", "1", "1">>
          THEN itn'.pc = "done" /\ itn'.raised = "TimeoutError"
          ELSE IF Body(itn) = <<"9", "1", "8">>
          THEN itn'.pc = "loop" /\ itn'.raised = ""
          ELSE itn'.pc = "done" /\ itn'.raised = "IOError"

C26_Ends == <>(itn.pc = "done")

C26_ReadRetryBound == [](C26_Bound) /\ [][C26_Step]_vars /\ C26_Ends

====
